---- MODULE Spec2Model ----
(***************************************************************************)
(* Model of src/main.py: the intake handler (HandleTask), the background   *)
(* pipeline (ProcessTaskInBackground) with its components, and the hosting *)
(* platform, generative service and evaluation callback they talk to.      *)
(* One action per outbound call of the pipeline; the services' answers are *)
(* the inputs, drawn with \E.                                              *)
(***************************************************************************)
EXTENDS Integers, Sequences, FiniteSets, TLC

\* ---------------------------------------------------------------- bounds
\* Largest round number a request carries.
MaxRound == 3
\* Longest array the generative service answers with.
MaxItems == 1

\* ------------------------------------------------------ program constants
maxRetries == 5
baseDelay == 1

SECRET == "s3cret"
OWNER == "24f2004631"

\* The background jobs of one run of the server: two, running concurrently.
Jobs == {1, 2}
Rounds == 1..MaxRound

\* Inputs of the intake endpoint.
Tasks == {"a"}
Nonces == {"b"}
Secrets == {SECRET, "wrong"}
Requests == [task : Tasks, nonce : Nonces, round : Rounds, secret : Secrets]
NoRequest == [task |-> "", nonce |-> "", round |-> 0, secret |-> ""]

\* ------------------------------------------------------- pure helpers

\* CheckSecretKey: TRUE when the handler raises 401.
CheckSecretKeyRaises(key) == key # SECRET

GetRepoName(task, nonce) == task \o "_" \o nonce

GetGithubPagesURL(repoName) == "https://" \o OWNER \o ".github.io/" \o repoName \o "/"

\* base64.b64encode(s.encode('utf-8')).decode('utf-8'): the empty string encodes
\* to the empty string, every other string to a different, non-empty one.
B64(s) == IF s = "" THEN "" ELSE "b64:" \o s

\* The hosting platform's version tag (blob sha) of stored content.
BlobSHA(content) == "sha:" \o content

\* ------------------------------------------------- generative service
\* What the generative service can answer: the call fails ("error"), the text
\* is not JSON ("text"), it is JSON but not an array ("json"), or it is an
\* array of items. An item is an object with a name and a content (either may
\* be missing or empty, written "") or is not an object at all (obj = FALSE).
ItemNames == {"", "index.html", "LICENSE", "README.md"}
Body(j) == "v" \o ToString(j)
Items(j) == [obj : {TRUE}, name : ItemNames, content : {"", Body(j)}]
              \cup {[obj |-> FALSE, name |-> "", content |-> ""]}
Arrays(j) == UNION {[1..n -> Items(j)] : n \in 0..MaxItems}
NonArrayAnswers == {[kind |-> k, items |-> <<>>] : k \in {"error", "text", "json"}}
Answers(j) == NonArrayAnswers \cup {[kind |-> "array", items |-> a] : a \in Arrays(j)}

ErrorHTML == "<html><body><h1>Gemini code generation failed</h1></body></html>"

HasName(files, n) == \E i \in 1..Len(files) : files[i].name = n

\* The loop of LLMCode over the parsed array: keeps the items that have both
\* a name and a content, transport-encoded.
RECURSIVE EncodeItems(_)
EncodeItems(items) ==
    IF items = <<>> THEN <<>>
    ELSE LET file == Head(items)
             rest == EncodeItems(Tail(items))
         IN  IF file.name # "" /\ file.content # ""
             THEN <<[name |-> file.name, content |-> B64(file.content)]>> \o rest
             ELSE rest

\* The round-1 defaults of LLMCode.
AddDefaults(round, task, encoded) ==
    IF round = 1 /\ ~(HasName(encoded, "LICENSE") \/ HasName(encoded, "README.md"))
    THEN LET withLicense ==
                 IF ~HasName(encoded, "LICENSE")
                 THEN Append(encoded, [name |-> "LICENSE", content |-> B64("MIT License...")])
                 ELSE encoded
         IN  IF ~HasName(withLicense, "README.md")
             THEN Append(withLicense, [name |-> "README.md", content |-> B64("# Task " \o task)])
             ELSE withLicense
    ELSE encoded

\* LLMCode whose except clause returns no file.
LLMCodeNoFallback(round, task, answer) ==
    IF answer.kind \in {"error", "text"}
    THEN [raised |-> FALSE, files |-> <<>>]
    ELSE IF answer.kind = "array" /\ \E i \in 1..Len(answer.items) : ~answer.items[i].obj
    THEN [raised |-> TRUE, files |-> <<>>]
    ELSE [raised |-> FALSE,
          files |-> AddDefaults(round, task,
                        IF answer.kind = "array" THEN EncodeItems(answer.items) ELSE <<>>)]

\* LLMCode(requestData, existingFiles): the file list it returns, or raised
\* when an exception leaves it (an item that is not an object has no .get).
LLMCode(round, task, answer) ==
    IF answer.kind \in {"error", "text"}
    THEN [raised |-> FALSE,
          files |-> <<[name |-> "error.html", content |-> B64(ErrorHTML)]>>]
    ELSE IF answer.kind = "array" /\ \E i \in 1..Len(answer.items) : ~answer.items[i].obj
    THEN [raised |-> TRUE, files |-> <<>>]
    ELSE [raised |-> FALSE,
          files |-> AddDefaults(round, task,
                        IF answer.kind = "array" THEN EncodeItems(answer.items) ELSE <<>>)]

\* ------------------------------------------------------------- state
\* projects: the hosting platform's projects, by name: whether the project
\*           exists, each file's version tag ("" when the file is absent),
\*           whether public serving is enabled.
\* jobs:     the background jobs (ProcessTaskInBackground), one record of
\*           locals per accepted request; pc is where the job stands.
\* hist:     per job, what has been observed on the wire so far: the
\*           acknowledgment sent, a create-project call issued, a write issued,
\*           a write accepted, how the platform answered the publish-enable
\*           call ("": not issued, "ok": enabled or already enabled,
\*           "rejected": anything else), the POSTs to the evaluation callback
\*           and those answered 200, a list-root-contents call issued, a
\*           generation that returned the empty list, the
\*           delays slept by the notifier, in order, and the commit identifier
\*           of the latest write the platform accepted in the run under way
\*           ("" when there is none, and once the run has ended).
VARIABLES projects, jobs, hist

vars == <<projects, jobs, hist>>

RepoNames == {GetRepoName(t, n) : t \in Tasks, n \in Nonces}
FileNames == (ItemNames \ {""}) \cup {"error.html"}

NoPayload == [name |-> "", content |-> "", sha |-> "", action |-> ""]

IdleJob == [pc |-> "Idle", req |-> NoRequest, repoName |-> "", repoURL |-> "",
            existingFiles |-> {}, filesToCommit |-> <<>>, idx |-> 0,
            payload |-> NoPayload, latestSHA |-> "", attempt |-> 0, delay |-> 0]

NoHist == [acked |-> FALSE, created |-> FALSE, put |-> FALSE, accepted |-> FALSE,
           enable |-> "", posts |-> 0, ok |-> 0,
           listed |-> FALSE, nofiles |-> FALSE, slept |-> <<>>, lastCommit |-> ""]

NoProject == [exists |-> FALSE, files |-> [f \in FileNames |-> ""],
              pages |-> FALSE]

Init ==
    /\ projects = [r \in RepoNames |-> NoProject]
    /\ jobs = [j \in Jobs |-> IdleJob]
    /\ hist = [j \in Jobs |-> NoHist]

\* The commit identifier the platform answers an accepted write with: one per
\* accepted write, named after the job and the position of the file it wrote.
CommitId(j, i) == "commit-" \o ToString(j) \o "." \o ToString(i)

\* ------------------------------------------------------------ intake
\* HandleTask that runs the pipeline itself: the acknowledgment waits for it.
HandleTaskInline(req) ==
    IF CheckSecretKeyRaises(req.secret)
    THEN UNCHANGED <<projects, jobs, hist>>
    ELSE \E j \in Jobs :
            /\ jobs[j].pc = "Idle"
            /\ \A i \in Jobs : i < j => jobs[i].pc # "Idle"
            /\ jobs' = [jobs EXCEPT ![j] = [IdleJob EXCEPT !.pc = "Start", !.req = req]]
            /\ UNCHANGED <<projects, hist>>

\* HandleTask: on a wrong secret 401 is raised and nothing is enqueued;
\* otherwise the job is added to the background tasks and the acknowledgment
\* is returned.
HandleTask(req) ==
    IF CheckSecretKeyRaises(req.secret)
    THEN UNCHANGED <<projects, jobs, hist>>
    ELSE \E j \in Jobs :
            /\ jobs[j].pc = "Idle"
            /\ \A i \in Jobs : i < j => jobs[i].pc # "Idle"
            /\ jobs' = [jobs EXCEPT ![j] = [IdleJob EXCEPT !.pc = "Start", !.req = req]]
            /\ hist' = [hist EXCEPT ![j].acked = TRUE]
            /\ UNCHANGED projects

\* --------------------------------------------------- hosting platform
\* A status the code does not single out (401, 403, 404, 500, ...).
Rejected == 500

RepoURL(repoName) == "https://github.com/" \o OWNER \o "/" \o repoName

\* auto_init with license_template: a new project holds a readme and a license.
NewProject == [exists |-> TRUE,
               files |-> [f \in FileNames |->
                            IF f = "README.md" THEN BlobSHA("readme")
                            ELSE IF f = "LICENSE" THEN BlobSHA("mit") ELSE ""],
               pages |-> FALSE]

\* The statuses create-project can answer with: 201 (created), 422 (the
\* request does not validate: the name is taken by an existing project, or
\* the request is refused as invalid for another reason) and any other
\* rejection.
CreateStatuses(p) == IF p.exists THEN {422, Rejected} ELSE {201, 422, Rejected}

\* CreateGithubRepo raises on any status but 201 and 422.
CreateGithubRepoRaises(status) == status \notin {201, 422}

\* The statuses enable-public-serving can answer with.
EnableStatuses(p) ==
    IF ~p.exists THEN {Rejected} ELSE IF p.pages THEN {409, Rejected} ELSE {201, Rejected}

\* EnablePages that never raises.
EnablePagesNeverRaises(status) == FALSE

\* EnablePages raises on any status but 201 and 409.
EnablePagesRaises(status) == status \notin {201, 409}

\* get-file-metadata: the stored version tag, or "not found".
FileMetadata(p, fileName) ==
    IF p.exists /\ p.files[fileName] # ""
    THEN [status |-> 200, sha |-> p.files[fileName]]
    ELSE [status |-> 404, sha |-> ""]

\* GetFileSHA that finds no file.
GetFileSHANone(response) == ""

\* GetFileSHA: the sha of a 200 answer, None (written "") otherwise.
GetFileSHA(response) == IF response.status = 200 THEN response.sha ELSE ""

\* create-or-update-file that takes any write to an existing project.
WriteAcceptedAlways(p, request) == p.exists

\* create-or-update-file: accepted when the project exists and the request
\* carries the stored version tag (none for a file that is absent).
WriteAccepted(p, request) == p.exists /\ request.sha = p.files[request.name]

\* The statuses create-or-update-file can answer with.
PutStatuses(p, request) ==
    IF WriteAccepted(p, request)
    THEN {IF request.sha = "" THEN 201 ELSE 200, Rejected}
    ELSE {Rejected}

EndsWith(s, suffix) ==
    Len(s) >= Len(suffix) /\ SubSeq(s, Len(s) - Len(suffix) + 1, Len(s)) = suffix

TextExtensions == {"html", "css", "js", "md", "json"}

\* The entries of list-root-contents that GetExistingFiles fetches: the root
\* files with a text extension (none when the listing is not answered 200).
TextFiles(p) ==
    IF p.exists
    THEN {f \in FileNames : p.files[f] # "" /\ \E ext \in TextExtensions : EndsWith(f, ext)}
    ELSE {}

\* GetFileContent: b64decode(content).decode('utf-8') raises on stored bytes
\* that are not UTF-8 text, and nothing in GetFileContent catches it. What
\* get-file-content answers is the platform's to say (the project is also
\* written to from outside this program): undecodable is an input.
GetFileContentRaises(fileName, undecodable) == fileName \in undecodable

\* GetExistingFiles, the files of undecodable holding bytes that do not
\* decode: the mapping's paths, or raised when a fetch raised (the loop has no
\* try either).
GetExistingFiles(p, undecodable) ==
    [raised |-> \E f \in TextFiles(p) : GetFileContentRaises(f, undecodable),
     files  |-> TextFiles(p)]

\* ------------------------------------------------ background pipeline
\* A job that has ended keeps nothing but its request: its locals are gone.
Ended(job, pc) == [IdleJob EXCEPT !.pc = pc, !.req = job.req]

\* The except clause of ProcessTaskInBackground.
Fail(j) == [jobs EXCEPT ![j] = Ended(jobs[j], "Failed")]

\* The rounds that start with a create-project call: every round.
CreatesProjectAlways(round) == TRUE

\* The rounds that start with a create-project call: round 1.
CreatesProject(round) == round = 1

\* Start -> Provisioned: CreateGithubRepo, answered status, for round 1, the
\* derived URL otherwise.
ProvisionWith(j, status) ==
    /\ jobs[j].pc = "Start"
    /\ LET req == jobs[j].req
           repoName == GetRepoName(req.task, req.nonce)
           named == [jobs EXCEPT ![j].repoName = repoName]
           ready == [named EXCEPT ![j].pc = "Provisioned", ![j].repoURL = RepoURL(repoName)]
       IN  IF CreatesProject(req.round)
           THEN /\ status \in CreateStatuses(projects[repoName])
                /\ projects' = IF status = 201
                               THEN [projects EXCEPT ![repoName] = NewProject]
                               ELSE projects
                /\ hist' = [hist EXCEPT ![j].created = TRUE]
                /\ jobs' = IF CreateGithubRepoRaises(status)
                           THEN Fail(j)
                           ELSE ready
           ELSE /\ status = 0
                /\ jobs' = ready
                /\ UNCHANGED <<projects, hist>>

Provision(j) == \E status \in {0, 201, 422, Rejected} : ProvisionWith(j, status)

\* The rounds whose context is gathered from the project: round 2.
BuildsContext(round) == round = 2

\* Provisioned -> ContextReady: GetExistingFiles for round 2, the stored files
\* of undecodable not decoding; the empty mapping for the other rounds.
BuildContextWith(j, undecodable) ==
    /\ jobs[j].pc = "Provisioned"
    /\ IF BuildsContext(jobs[j].req.round)
       THEN LET result == GetExistingFiles(projects[jobs[j].repoName], undecodable)
            IN  /\ undecodable \subseteq TextFiles(projects[jobs[j].repoName])
                /\ hist' = [hist EXCEPT ![j].listed = TRUE]
                /\ jobs' = IF result.raised
                           THEN Fail(j)
                           ELSE [jobs EXCEPT ![j].pc = "ContextReady",
                                             ![j].existingFiles = result.files]
       ELSE /\ undecodable = {}
            /\ jobs' = [jobs EXCEPT ![j].pc = "ContextReady", ![j].existingFiles = {}]
            /\ UNCHANGED hist
    /\ UNCHANGED projects

BuildContext(j) == \E undecodable \in SUBSET FileNames : BuildContextWith(j, undecodable)

\* The orchestrator without its check of the generated list.
NoFilesNeverRaises(filesToCommit) == FALSE

\* "if not filesToCommit: raise": the orchestrator raises on an empty list.
NoFilesRaises(filesToCommit) == filesToCommit = <<>>

\* ContextReady -> Generated: LLMCode on the service's answer, then the
\* empty-list check. The context is dead once LLMCode has returned.
GenerateWith(j, answer) ==
    /\ jobs[j].pc = "ContextReady"
    /\ LET result == LLMCode(jobs[j].req.round, jobs[j].req.task, answer)
       IN  /\ jobs' = IF result.raised \/ NoFilesRaises(result.files)
                      THEN Fail(j)
                      ELSE [jobs EXCEPT ![j].pc = "Generated",
                                        ![j].existingFiles = {},
                                        ![j].filesToCommit = result.files,
                                        ![j].idx = 1,
                                        ![j].latestSHA = ""]
           /\ hist' = [hist EXCEPT ![j].nofiles = ~result.raised /\ result.files = <<>>]
    /\ UNCHANGED projects

Generate(j) == \E answer \in Answers(j) : GenerateWith(j, answer)

\* latestSHA after one write: the answer's commit sha when the status is 200
\* or 201, unchanged otherwise.
LatestAfterAnyStatus(status, commit, latestSHA) == commit

\* latestSHA that keeps the first accepted write's commit.
LatestAfterFirst(status, commit, latestSHA) ==
    IF status \in {200, 201} /\ latestSHA = "" THEN commit ELSE latestSHA

LatestAfter(status, commit, latestSHA) ==
    IF status \in {200, 201} THEN commit ELSE latestSHA

\* PushToRepo without its final check of latestSHA.
AfterFileNoCheck(job, latestSHA) ==
    IF job.idx < Len(job.filesToCommit)
    THEN [job EXCEPT !.idx = @ + 1, !.payload = NoPayload, !.latestSHA = latestSHA]
    ELSE [job EXCEPT !.idx = 0, !.payload = NoPayload, !.latestSHA = latestSHA,
                     !.filesToCommit = <<>>, !.pc = "Synced"]

\* The end of one iteration of PushToRepo's loop and, after the last file, the
\* return: raises when latestSHA is still empty. The list and the index are
\* dead once PushToRepo has returned.
AfterFile(job, latestSHA) ==
    IF job.idx < Len(job.filesToCommit)
    THEN [job EXCEPT !.idx = @ + 1, !.payload = NoPayload, !.latestSHA = latestSHA]
    ELSE IF latestSHA = ""
    THEN Ended(job, "Failed")
    ELSE [job EXCEPT !.idx = 0, !.payload = NoPayload, !.latestSHA = latestSHA,
                     !.filesToCommit = <<>>, !.pc = "Synced"]

\* PushToRepo, first half of one iteration: the version lookup and the payload.
Lookup(j) ==
    /\ jobs[j].pc = "Generated"
    /\ jobs[j].payload = NoPayload
    /\ LET file == jobs[j].filesToCommit[jobs[j].idx]
           fileSHA == GetFileSHA(FileMetadata(projects[jobs[j].repoName], file.name))
       IN  jobs' = IF file.name = "" \/ file.content = ""
                   THEN [jobs EXCEPT ![j] = AfterFile(jobs[j], jobs[j].latestSHA)]
                   ELSE [jobs EXCEPT ![j].payload =
                            [name |-> file.name, content |-> file.content, sha |-> fileSHA,
                             action |-> IF fileSHA # "" THEN "Update" ELSE "Create"]]
    /\ UNCHANGED <<projects, hist>>

\* PushToRepo, second half: the write and its answer, status.
PutWith(j, status) ==
    /\ jobs[j].pc = "Generated"
    /\ jobs[j].payload # NoPayload
    /\ LET repoName == jobs[j].repoName
           p == projects[repoName]
           request == jobs[j].payload
       IN  /\ status \in PutStatuses(p, request)
           /\ projects' = IF status \in {200, 201}
                          THEN [projects EXCEPT
                                  ![repoName].files[request.name] = BlobSHA(request.content)]
                          ELSE projects
           /\ hist' = [hist EXCEPT ![j].put = TRUE,
                                   ![j].accepted = @ \/ status \in {200, 201},
                                   ![j].lastCommit = IF status \in {200, 201}
                                                     THEN CommitId(j, jobs[j].idx)
                                                     ELSE @]
           /\ jobs' = [jobs EXCEPT ![j] =
                          AfterFile(jobs[j],
                                    LatestAfter(status, CommitId(j, jobs[j].idx),
                                                jobs[j].latestSHA))]

Put(j) == \E status \in {200, 201, Rejected} : PutWith(j, status)

\* Synced -> Published: EnablePages.
Enable(j) ==
    /\ jobs[j].pc = "Synced"
    /\ LET repoName == jobs[j].repoName
       IN  \E status \in EnableStatuses(projects[repoName]) :
             /\ projects' = IF status = 201
                            THEN [projects EXCEPT ![repoName].pages = TRUE]
                            ELSE projects
             /\ hist' = [hist EXCEPT ![j].enable =
                                        IF status = Rejected THEN "rejected" ELSE "ok",
                                     ![j].lastCommit =
                                        IF EnablePagesRaises(status) THEN "" ELSE @]
             /\ jobs' = IF EnablePagesRaises(status)
                        THEN Fail(j)
                        ELSE [jobs EXCEPT ![j].pc = "Published", ![j].delay = baseDelay]

\* What one POST to the evaluation callback can end with.
PostOutcomes == {"200", "other", "exception"}

\* The loop with one attempt too many.
AfterPostOneMore(job, outcome) ==
    IF outcome = "200"
    THEN Ended(job, "Done")
    ELSE IF job.attempt + 1 < maxRetries + 1
    THEN [job EXCEPT !.attempt = @ + 1, !.delay = @ * 2]
    ELSE Ended(job, "Done")

\* The loop without its return on 200.
AfterPostNoReturn(job, outcome) ==
    IF job.attempt + 1 < maxRetries
    THEN [job EXCEPT !.attempt = @ + 1,
                     !.delay = IF job.attempt < maxRetries - 1 THEN @ * 2 ELSE @]
    ELSE Ended(job, "Done")

\* The loop without its except clause: a transport error leaves the notifier.
AfterPostRaises(job, outcome) ==
    IF outcome = "200"
    THEN Ended(job, "Done")
    ELSE IF outcome = "exception"
    THEN Ended(job, "Failed")
    ELSE IF job.attempt + 1 < maxRetries
    THEN [job EXCEPT !.attempt = @ + 1,
                     !.delay = IF job.attempt < maxRetries - 1 THEN @ * 2 ELSE @]
    ELSE Ended(job, "Done")

\* One iteration of PostToEvaluationAPI's loop.
AfterPost(job, outcome) ==
    IF outcome = "200"
    THEN Ended(job, "Done")
    ELSE IF job.attempt + 1 < maxRetries
    THEN [job EXCEPT !.attempt = @ + 1,
                     !.delay = IF job.attempt < maxRetries - 1 THEN @ * 2 ELSE @]
    ELSE Ended(job, "Done")

\* The loop sleeping after its last attempt too.
SleptAfterEveryFailure(job, outcome) ==
    IF outcome # "200" THEN <<job.delay>> ELSE <<>>

\* The delays slept in one iteration of the loop: time.sleep(delay) after an
\* attempt that did not return, unless it was the last.
Slept(job, outcome) ==
    IF outcome # "200" /\ job.attempt < maxRetries - 1 THEN <<job.delay>> ELSE <<>>

\* Published -> Done: PostToEvaluationAPI, one attempt per step; outcome is
\* how the POST ended (a POST not answered within its timeout of 15 seconds
\* ends with an exception).
PostWith(j, outcome) ==
    /\ jobs[j].pc = "Published"
    /\ LET after == AfterPost(jobs[j], outcome)
       IN  /\ jobs' = [jobs EXCEPT ![j] = after]
           /\ hist' = [hist EXCEPT ![j].posts = @ + 1,
                                   ![j].ok = IF outcome = "200" THEN @ + 1 ELSE @,
                                   ![j].slept = @ \o Slept(jobs[j], outcome),
                                   ![j].lastCommit =
                                       IF after.pc = "Published" THEN @ ELSE ""]
    /\ UNCHANGED projects

Post(j) == \E outcome \in PostOutcomes : PostWith(j, outcome)

Next ==
    \/ \E req \in Requests : HandleTask(req)
    \/ \E j \in Jobs : Provision(j)
    \/ \E j \in Jobs : BuildContext(j)
    \/ \E j \in Jobs : Generate(j)
    \/ \E j \in Jobs : Lookup(j)
    \/ \E j \in Jobs : Put(j)
    \/ \E j \in Jobs : Enable(j)
    \/ \E j \in Jobs : Post(j)

Spec == Init /\ [][Next]_vars

\* One step of job j's pipeline.
Step(j) ==
    \/ Provision(j) \/ BuildContext(j) \/ Generate(j)
    \/ Lookup(j) \/ Put(j) \/ Enable(j) \/ Post(j)

\* Every service answers every call: a job that can take a step takes it.
FairSpec == Spec /\ \A j \in Jobs : WF_vars(Step(j))

Terminal(j) == jobs[j].pc \in {"Done", "Failed"}

\* ------------------------------------------- services that do not answer
\* The outbound call a job at pc makes next carries a timeout: only the POST
\* to the evaluation callback does (timeout=15); the calls to the hosting
\* platform and to the generative service are made without one.
HasTimeout(pc) == pc = "Published"

\* The job at pc, in round, makes an outbound call next.
CallsOut(pc, round) ==
    \/ pc = "Start" /\ CreatesProject(round)
    \/ pc = "Provisioned" /\ BuildsContext(round)
    \/ pc \in {"ContextReady", "Generated", "Synced", "Published"}

\* The service never answers the call job j makes next: without a timeout the
\* call never returns, and the job waits in it for ever.
Hang(j) ==
    /\ CallsOut(jobs[j].pc, jobs[j].req.round)
    /\ ~HasTimeout(jobs[j].pc)
    /\ jobs' = [jobs EXCEPT ![j] = Ended(jobs[j], "Waiting")]
    /\ hist' = [hist EXCEPT ![j].lastCommit = ""]
    /\ UNCHANGED projects

NextHang == Next \/ \E j \in Jobs : Hang(j)

\* The services answer or not; a job whose call has returned goes on.
HangSpec == Init /\ [][NextHang]_vars /\ \A j \in Jobs : WF_vars(Step(j))

\* ------------------------------------- project names (pure function)
\* Longest task or nonce.
MaxLen == 2

Alphabet == {"a", "_"}

RECURSIVE Strings(_)
Strings(n) ==
    IF n = 0 THEN {""}
    ELSE LET shorter == Strings(n - 1)
         IN  shorter \cup {s \o c : s \in shorter, c \in Alphabet}

\* The tasks and nonces: the non-empty strings of at most MaxLen characters.
Names == Strings(MaxLen) \ {""}

\* Two accepted requests with any task and nonce.
InitNames ==
    /\ projects = [r \in RepoNames |-> NoProject]
    /\ jobs \in [Jobs -> {[IdleJob EXCEPT !.pc = "Start",
                                          !.req = [task |-> t, nonce |-> n,
                                                   round |-> r, secret |-> SECRET]] :
                             t \in Names, n \in Names, r \in {1, 2}}]
    /\ hist = [j \in Jobs |-> [NoHist EXCEPT !.acked = TRUE]]

\* The first statement of ProcessTaskInBackground.
NameProject(j) ==
    /\ jobs[j].pc = "Start"
    /\ jobs' = [jobs EXCEPT ![j].pc = "Named",
                            ![j].repoName = GetRepoName(jobs[j].req.task, jobs[j].req.nonce)]
    /\ UNCHANGED <<projects, hist>>

NextNames == \E j \in Jobs : NameProject(j)

SpecNames == InitNames /\ [][NextNames]_vars

\* ------------------------------------------------------------ claims

\* C1: a job none of whose writes was accepted by the platform has issued no
\* publish-enable call and no notification POST, is never Synced, Published
\* or Done, and once its batch is over it is Failed.
C1_NoAcceptedWrite ==
    \A j \in Jobs :
        ~hist[j].accepted =>
            /\ hist[j].enable = ""
            /\ hist[j].posts = 0
            /\ jobs[j].pc \notin {"Synced", "Published", "Done"}
            /\ (hist[j].put /\ jobs[j].pc # "Generated" => jobs[j].pc = "Failed")

\* A job whose every write was rejected and that ended Failed.
C1_Witness ==
    \E j \in Jobs : hist[j].put /\ ~hist[j].accepted /\ jobs[j].pc = "Failed"

\* The order of a round-1 run: writes only after the create call, the
\* publish-enable call only after an accepted write, POSTs only after the
\* publish-enable call, Done only after all of them.
Round1Order(j) ==
    /\ hist[j].put => hist[j].created
    /\ hist[j].enable # "" => hist[j].accepted
    /\ hist[j].posts > 0 => hist[j].enable = "ok"
    /\ jobs[j].pc = "Done" =>
          hist[j].created /\ hist[j].accepted /\ hist[j].enable = "ok" /\ hist[j].posts > 0

C3_PublishedWhateverTheAnswer ==
    \A j \in Jobs : hist[j].enable # "" => jobs[j].pc \in {"Published", "Done"}

\* C3 as amended: a publish-enable call rejected for another reason than
\* already-enabled ends the round Failed and no notification POST is made; the
\* round is Published, and the notifier called, only when the call was answered
\* enabled or already-enabled.
C3_RejectedEnableFails ==
    \A j \in Jobs :
        /\ hist[j].enable = "rejected" => jobs[j].pc = "Failed" /\ hist[j].posts = 0
        /\ hist[j].enable = "ok" => jobs[j].pc \in {"Published", "Done"}

\* A job whose publish-enable call was rejected.
C3_Witness ==
    \E j \in Jobs : hist[j].enable = "rejected" /\ jobs[j].pc = "Failed"

\* C4: in round 1 the file list the Generation Adapter returned holds both a
\* LICENSE and a README.md, whatever the generative service answered.
C4_Round1HasLicenseAndReadme ==
    \A j \in Jobs :
        jobs[j].pc = "Generated" /\ jobs[j].req.round = 1 =>
            /\ HasName(jobs[j].filesToCommit, "LICENSE")
            /\ HasName(jobs[j].filesToCommit, "README.md")

ErrorArtifact == [name |-> "error.html", content |-> B64(ErrorHTML)]

FileNamesOf(files) == [i \in 1..Len(files) |-> files[i].name]

\* C5 as stated: an answer that is not JSON, or is JSON but not an array,
\* gives exactly the fallback artifact and the round goes on to synchronize it.
C5_FallbackForNonArray ==
    [][\A j \in Jobs : \A answer \in NonArrayAnswers :
          GenerateWith(j, answer) /\ answer.kind \in {"text", "json"} =>
              /\ jobs'[j].pc = "Generated"
              /\ jobs'[j].filesToCommit = <<ErrorArtifact>>]_vars

\* C5 as amended: a failed call or an answer that is not JSON gives exactly
\* the fallback artifact and the round goes on to synchronize it; a JSON answer
\* that is not an array gives no fallback artifact: the two synthesized files
\* in round 1, and in any other round the empty list, which ends the round
\* Failed.
C5_FallbackForNonJSON ==
    [][\A j \in Jobs : \A answer \in NonArrayAnswers :
          GenerateWith(j, answer) =>
              /\ answer.kind \in {"error", "text"} =>
                    /\ jobs'[j].pc = "Generated"
                    /\ jobs'[j].filesToCommit = <<ErrorArtifact>>
                    /\ jobs'[j].idx = 1
              /\ answer.kind = "json" /\ jobs[j].req.round = 1 =>
                    /\ jobs'[j].pc = "Generated"
                    /\ FileNamesOf(jobs'[j].filesToCommit) = <<"LICENSE", "README.md">>
              /\ answer.kind = "json" /\ jobs[j].req.round # 1 =>
                    jobs'[j].pc = "Failed"]_vars

\* A job that was given the fallback artifact and has issued the write of it.
C5_Witness ==
    \E j \in Jobs :
        /\ jobs[j].pc = "Generated"
        /\ jobs[j].filesToCommit = <<ErrorArtifact>>
        /\ jobs[j].payload.name = "error.html"

\* C6: in one invocation of the notifier no POST follows one answered 200,
\* and when none is answered 200 exactly maxRetries POSTs are made.
C6_NotifierAttempts ==
    \A j \in Jobs :
        /\ hist[j].posts <= maxRetries
        /\ hist[j].ok > 0 => jobs[j].pc = "Done" /\ hist[j].ok = 1
        /\ jobs[j].pc = "Done" /\ hist[j].ok = 0 => hist[j].posts = maxRetries
        /\ jobs[j].pc = "Published" => hist[j].posts = jobs[j].attempt /\ hist[j].posts < maxRetries

\* One job stopped by a 200 before its last attempt, another that made all
\* its attempts without a 200.
C6_Witness ==
    \E j, k \in Jobs :
        /\ jobs[j].pc = "Done" /\ hist[j].ok = 1 /\ hist[j].posts < maxRetries
        /\ jobs[k].pc = "Done" /\ hist[k].ok = 0 /\ hist[k].posts = maxRetries

\* The notifications answered 200 for one (task, nonce, round).
RECURSIVE SumOk(_, _)
SumOk(req, js) ==
    IF js = {} THEN 0
    ELSE LET j == CHOOSE x \in js : TRUE
         IN  (IF jobs[j].req = req THEN hist[j].ok ELSE 0) + SumOk(req, js \ {j})

\* C7 as stated: the callback receives at most one notification answered 200
\* for a given (task, nonce, round).
C7_OncePerRound == \A req \in Requests : SumOk(req, Jobs) <= 1

\* C7 as amended: each run of the pipeline has at most one notification
\* answered 200; the same request accepted twice is two runs.
C7_OncePerRun == \A j \in Jobs : hist[j].ok <= 1

\* The same request accepted twice, both runs notified with a 200.
C7_Witness ==
    \E j, k \in Jobs :
        /\ j # k /\ jobs[j].req = jobs[k].req
        /\ hist[j].ok = 1 /\ hist[k].ok = 1

C9_DistinctKeysDistinctNames ==
    \A j, k \in Jobs :
        (/\ jobs[j].repoName # "" /\ jobs[k].repoName # ""
         /\ <<jobs[j].req.task, jobs[j].req.nonce>> # <<jobs[k].req.task, jobs[k].req.nonce>>)
            => jobs[j].repoName # jobs[k].repoName

\* What a job has done downstream of the handler.
Downstream(j) ==
    \/ jobs[j].pc \notin {"Idle", "Start"}
    \/ hist[j].created \/ hist[j].put \/ hist[j].enable # "" \/ hist[j].posts > 0

\* C10: the acknowledgment of a request is returned before its job does
\* anything downstream, and the handler itself makes no downstream call.
C10_AckBeforeDownstream ==
    \A j \in Jobs :
        /\ Downstream(j) => hist[j].acked
        /\ jobs[j].pc = "Idle" => hist[j] = NoHist

\* An acknowledged request whose job has not started.
C10_Witness ==
    \E j \in Jobs : hist[j].acked /\ jobs[j].pc = "Start" /\ ~Downstream(j)

\* The project a job's request names.
ProjectOf(j) == projects[GetRepoName(jobs[j].req.task, jobs[j].req.nonce)]

\* C11: a job that has got past the context step has listed the project's
\* root (the Round Context Builder was invoked) exactly when its round is
\* greater than 1; in round 1 the context is empty.
C11_ContextForLaterRounds ==
    \A j \in Jobs :
        jobs[j].pc \in {"ContextReady", "Generated", "Synced", "Published", "Done"} =>
            /\ hist[j].listed <=> jobs[j].req.round > 1
            /\ jobs[j].req.round = 1 => jobs[j].existingFiles = {}

\* C12: every accepted job eventually ends Done or Failed, the services
\* answering or not.
C12_EveryJobEnds ==
    \A j \in Jobs : (jobs[j].pc = "Start") ~> Terminal(j)

\* C13: a later round issues no create-project call; in round 1 a create call
\* rejected because the project exists lets the pipeline continue, and one
\* rejected for any other reason ends the round Failed at once (before any
\* generation, synchronization, publish-enable or notification call).
C13_CreateRejections ==
    /\ [](\A j \in Jobs : jobs[j].req.round > 1 => ~hist[j].created)
    /\ [][\A j \in Jobs : \A status \in {422, Rejected} :
            (ProvisionWith(j, status) /\ jobs[j].req.round = 1) =>
                IF status = 422 /\ ProjectOf(j).exists
                THEN jobs'[j].pc = "Provisioned"
                ELSE jobs'[j].pc = "Failed"]_vars

\* C14: the batch goes on to its next file whatever the platform answered the
\* previous ones, and the commit identifier the synchronizer holds, returns and
\* hands to the notifier is the one of the latest write the platform accepted.
C14_LastAcceptedWrite ==
    /\ [](\A j \in Jobs :
            jobs[j].pc \in {"Generated", "Synced", "Published"} =>
                jobs[j].latestSHA = hist[j].lastCommit)
    /\ [][\A j \in Jobs :
            (/\ jobs[j].pc = "Generated" /\ jobs'[j] # jobs[j]
             /\ jobs[j].idx < Len(jobs[j].filesToCommit)) =>
                /\ jobs'[j].pc = "Generated"
                /\ jobs'[j].filesToCommit = jobs[j].filesToCommit
                /\ jobs'[j].idx = IF jobs[j].payload = NoPayload
                                  THEN jobs[j].idx ELSE jobs[j].idx + 1]_vars

\* A batch whose first write was accepted and second rejected, about to
\* attempt its third file.
C14_Witness ==
    \E j \in Jobs :
        /\ jobs[j].pc = "Generated" /\ jobs[j].idx = 3
        /\ jobs[j].latestSHA = CommitId(j, 1)
        /\ hist[j].lastCommit = CommitId(j, 1)

\* C15: the k-th delay the notifier sleeps is baseDelay * 2^(k-1); every
\* failed attempt but the last is followed by one delay, and no delay follows
\* the last attempt or one answered 200.
C15_BackoffDelays ==
    \A j \in Jobs :
        LET slept == hist[j].slept
        IN  /\ \A k \in 1..Len(slept) : slept[k] = baseDelay * 2^(k - 1)
            /\ Len(slept) <= maxRetries - 1
            /\ jobs[j].pc = "Published" => Len(slept) = hist[j].posts
            /\ jobs[j].pc = "Done" /\ hist[j].ok = 1 => Len(slept) = hist[j].posts - 1
            /\ jobs[j].pc = "Done" /\ hist[j].ok = 0 => Len(slept) = maxRetries - 1

\* A notifier that made all its attempts and slept 1, 2, 4, 8.
C15_Witness ==
    \E j \in Jobs :
        /\ jobs[j].pc = "Done" /\ hist[j].posts = maxRetries
        /\ hist[j].slept = <<1, 2, 4, 8>>

\* C16: whatever a POST of the notifier ends with, a Published job stays
\* Published or ends Done, never Failed, and the last attempt ends it Done.
C16_PublishedEndsDone ==
    [][\A j \in Jobs : \A outcome \in PostOutcomes :
          PostWith(j, outcome) =>
              /\ jobs'[j].pc \in {"Published", "Done"}
              /\ (outcome = "200" \/ hist'[j].posts = maxRetries) => jobs'[j].pc = "Done"]_vars

\* A job that is Done after maxRetries POSTs none of which was answered 200.
C16_Witness ==
    \E j \in Jobs :
        /\ jobs[j].pc = "Done" /\ hist[j].enable = "ok"
        /\ hist[j].ok = 0 /\ hist[j].posts = maxRetries

\* C17: when stored files do not decode, the Round Context Builder returns
\* the other entries and the round goes on to generation.
C17_UndecodableOmitted ==
    [][\A j \in Jobs : \A undecodable \in SUBSET FileNames :
          (BuildContextWith(j, undecodable) /\ BuildsContext(jobs[j].req.round)) =>
              /\ jobs'[j].pc = "ContextReady"
              /\ jobs'[j].existingFiles =
                     TextFiles(projects[jobs[j].repoName]) \ undecodable]_vars

\* C18: a job whose generation returned zero files is Failed and has issued
\* no write, no publish-enable call and no POST.
C18_ZeroFilesFails ==
    \A j \in Jobs :
        hist[j].nofiles =>
            /\ jobs[j].pc = "Failed"
            /\ ~hist[j].put /\ hist[j].enable = "" /\ hist[j].posts = 0

\* A job of a later round whose generation returned zero files.
C18_Witness ==
    \E j \in Jobs : hist[j].nofiles /\ jobs[j].req.round > 1 /\ jobs[j].pc = "Failed"

C20_LaterRoundWithoutProject ==
    \A j \in Jobs :
        jobs[j].req.round > 1 =>
            /\ ~hist[j].created
            /\ ~ProjectOf(j).exists =>
                  /\ ~hist[j].accepted /\ hist[j].enable = "" /\ hist[j].posts = 0
                  /\ jobs[j].pc \notin {"Synced", "Published", "Done"}
                  /\ (hist[j].put /\ jobs[j].pc # "Generated" => jobs[j].pc = "Failed")

\* A job of a later round whose writes to a project that does not exist were
\* all rejected and that ended Failed.
C20_Witness ==
    \E j \in Jobs :
        /\ jobs[j].req.round > 1 /\ ~ProjectOf(j).exists
        /\ hist[j].put /\ jobs[j].pc = "Failed"

====
